---- MODULE Spec2Model ----
(***************************************************************************)
(* State-machine model of the f1-dashboard data collectors                 *)
(* ("f1 data"/*.py and Stats/driver_points.py): the rate-limited request   *)
(* functions, the paginated collectors (pit stops, lap times) and the jobs *)
(* that locate an event, fetch a resource and persist it.                  *)
(*                                                                         *)
(* One behaviour is one job of one kind (the variable kind), run against   *)
(* an upstream that answers every request with a status the model picks:   *)
(* 200 with a body, 429, another status (500 stands for all of them) or a  *)
(* connection failure ("exc": requests.get raises). Under SpecTwice the    *)
(* script is then started once more and the upstream repeats its answers.  *)
(*                                                                         *)
(* Time is a clock in ticks of 1/20 second, the least unit in which the    *)
(* delays of the code (1/4 s, 0.3 s, 1/2 s, 30 s, 60 s, 1800 s, 3600 s)    *)
(* are whole numbers. time.sleep(d) advances the clock by d, a request by  *)
(* 0 or SlowRequest ticks; everything else takes no time.                  *)
(***************************************************************************)
EXTENDS Integers, Sequences, FiniteSets, TLC

(***************************************************************************)
(* Bounds of the model                                                     *)
(***************************************************************************)
\* Records per page. The code asks for pages of 100 (limit, LIMIT); the
\* model scales the page size down, the loops are the code's.
PageSize == 2
\* The largest total a first page declares.
MaxTotal == 3
\* The most requests the upstream answers in one job.
MaxRequests == 4
\* The most 429 answers the upstream gives in one job.
Max429 == 1
\* Duration, in ticks, of a request that is not instantaneous.
SlowRequest == 8
\* The most requests of one job that are not instantaneous.
MaxSlow == 1
\* 429 responses a throttling upstream gives in one job.
MaxThrottled == 3

(***************************************************************************)
(* Time                                                                    *)
(***************************************************************************)
Second == 4 * 5
\* time.time() when the process starts: any value far above every delay
\* compared with a zero-initialised last_request_time.
StartTime == 5 * Second

(***************************************************************************)
(* Program constants                                                       *)
(***************************************************************************)
\* pitstops.py:35, sprint_results.py:25, quali_results.py:28
burst_limit == 4
\* pitstops.py:113 (100 in the code, scaled)
limit == PageSize
\* laptimes.py:18 (100 in the code, scaled)
LIMIT == PageSize
\* laptimes.py:19
laptimes_RATE_LIMIT_BURST == 4
\* team_points.py:24-26
BURST_LIMIT == 2
SUSTAINED_LIMIT == 500
REQUEST_DELAY == Second \div BURST_LIMIT
\* driver_points.py:21-23
driver_RATE_LIMIT_BURST == 2
driver_REQUEST_DELAY == Second \div driver_RATE_LIMIT_BURST

(***************************************************************************)
(* Documents                                                               *)
(*                                                                         *)
(* A JSON body is a record: total is MRData.total, offset the offset the   *)
(* envelope echoes (MRData.offset), shape says which keys the body holds   *)
(* and recs is the repeated array of Races[0] (PitStops, Laps), records    *)
(* being named by their position in the upstream collection.               *)
(*   "full"     MRData.RaceTable.Races[0] holds the repeated array         *)
(*   "nokey"    Races[0] exists and has no repeated array                  *)
(*   "noraces"  Races is the empty list                                    *)
(*   "error"    the JSON body of a response whose status is not 200        *)
(*   "None"     Python's None, the no-data sentinel                        *)
(***************************************************************************)
None == [total |-> 0, offset |-> 0, shape |-> "None", recs |-> <<>>]
ErrorBody == [total |-> 0, offset |-> 0, shape |-> "error", recs |-> <<>>]

\* Python truthiness of a returned body: None is false, a dict with keys true.
Truthy(d) == d.shape # "None"

\* "RaceTable" in MRData and "Races" in RaceTable and len(Races) > 0
HasRace(d) == d.shape \in {"full", "nokey"}

\* The records of a page of n records served at offset o.
RecsAt(o, n) == [i \in 1..n |-> o + i]

\* The 200 bodies the upstream may serve for a page requested at offset o.
PageBodies(o) ==
    { [total |-> t, offset |-> o, shape |-> "full", recs |-> RecsAt(o, n)] :
        t \in 0..MaxTotal, n \in 0..PageSize }
    \cup
    { [total |-> t, offset |-> o, shape |-> s, recs |-> <<>>] :
        t \in 0..MaxTotal, s \in {"nokey", "noraces"} }

\* total_pitstops = None, total_records = None
NoTotal == 0 - 1

(***************************************************************************)
(* Event index (<season>/events.json) and event names                      *)
(***************************************************************************)
Lower(c) ==
    CASE c = "A" -> "a" [] c = "B" -> "b" [] c = "G" -> "g" [] c = "P" -> "p"
      [] OTHER -> c

RECURSIVE LowerAll(_)
LowerAll(s) == IF s = <<>> THEN <<>> ELSE <<Lower(Head(s))>> \o LowerAll(Tail(s))

\* str.replace(old, new) for a one-character old; new is a sequence.
RECURSIVE Replace(_, _, _)
Replace(s, old, new) ==
    IF s = <<>> THEN <<>>
    ELSE (IF Head(s) = old THEN new ELSE <<Head(s)>>) \o Replace(Tail(s), old, new)

\* str(round_num) for the rounds of the model.
Str(n) ==
    LET digit == <<"0", "1", "2", "3", "4", "5", "6", "7", "8", "9">> IN
    IF n < 10 THEN digit[n + 1] ELSE digit[(n \div 10) + 1] \o digit[(n % 10) + 1]

NoRace == [round |-> "None", raceName |-> <<>>, Sprint |-> FALSE]

RaceA == [round |-> "1", raceName |-> <<"A", " ", "G", "P">>, Sprint |-> FALSE]
RaceB == [round |-> "2", raceName |-> <<"B", "'", "a", " ", "G", "P">>, Sprint |-> TRUE]

\* events.json of the season: absent, present without the expected keys, or
\* present with a list of races.
\* The races of the season as the upstream lists them.
UpstreamRaces == <<RaceA, RaceB>>

\* Two more entries an events.json may hold: a second race with the round
\* string "2", and a race whose round is written "03".
RaceB2 == [round |-> "2", raceName |-> <<"G", "P">>, Sprint |-> FALSE]
RaceC == [round |-> "03", raceName |-> <<"P", " ", "G">>, Sprint |-> TRUE]

EventIndexes ==
    { [exists |-> FALSE, wellformed |-> FALSE, races |-> <<>>],
      [exists |-> TRUE, wellformed |-> FALSE, races |-> <<>>],
      [exists |-> TRUE, wellformed |-> TRUE, races |-> UpstreamRaces],
      [exists |-> TRUE, wellformed |-> TRUE, races |-> <<RaceA, RaceB, RaceB2, RaceC>>] }

Seasons == {2010, 2025}

\* A document written by an earlier run of some job.
OldDocument == [total |-> 1, offset |-> 0, shape |-> "old", recs |-> <<>>]

\* The store before the job: the folders events.py made for the season 2025
\* (its slug keeps the apostrophe), each with its event_info.json, and the
\* driver standings of round 2 fetched earlier.
OldFiles ==
    [ p \in { <<2025, <<"a", "-", "g", "p">>, "event_info.json">>,
              <<2025, <<"b", "'", "a", "-", "g", "p">>, "event_info.json">>,
              <<2025, <<"b", "'", "a", "-", "g", "p">>, "driverPoints.json">> } |->
        OldDocument ]

\* A store that opens the file for appending: the records of the document
\* follow those the file held.
WriteAppending(store, path, doc) ==
    IF path \in DOMAIN store /\ store[path].shape = doc.shape
    THEN (path :> [doc EXCEPT !.recs = store[path].recs \o @]) @@ store
    ELSE (path :> doc) @@ store

\* What a file holds when the write was cut short.
PartialDocument == [total |-> 0, offset |-> 0, shape |-> "partial", recs |-> <<>>]

\* The stores an open(path, "w") / json.dump that raises OSError may leave:
\* the file as it was (open failed) or created and cut short (dump failed).
WriteFails(store, path) == { store, (path :> PartialDocument) @@ store }

\* A save that makes the event folder anew: the other files of the folder
\* are lost.
WriteInNewFolder(store, path, doc) ==
    [ q \in {path} \cup { p \in DOMAIN store : p[2] # path[2] } |->
        IF q = path THEN doc ELSE store[q] ]

\* open(path, "w") and json.dump(doc): the file holds the document and
\* nothing of what it held before. Every other file is left as it is.
Write(store, path, doc) == (path :> doc) @@ store
Rounds == {1, 2, 3}

\* The jobs that read events.json, and the one that tests the season.
ReadsIndex == {"pitstops", "driver", "sprint"}

VARIABLES
    kind,               \* the job: which script runs
    season, round_num,  \* the job's arguments
    events_json,        \* <season>/events.json
    dirs,               \* the event folders that exist under <season>/
    files,              \* resource files: path -> document
    pc,                 \* where the job is
    caller,             \* the call site a request function returns to
    url,                \* the URL of the request in progress
    ret,                \* the value a request function returned
    clock,              \* time.time()
    last_request_time,  \* self.last_request_time
    requests_this_hour, hour_start_time,
    requests_sent,      \* history: the requests this fetcher has sent
    upstream,           \* "any": every answer is possible; "steady": 200 at once
    disk,               \* "ok": writes succeed; "failing": every write raises OSError
    race_info,          \* the located event
    offset, all_pitstops, total_pitstops, response_data,
    pitstops_data,      \* what fetch_pitstops_for_race returned
    all_data, total_records,
    lap_data,           \* what fetch_laptimes returned
    outcome,            \* how the job ended: the status it reports
    reqLog,             \* history: the requests of the job, in order
    run,                \* 1: the job; 2: the same job started once more
    first_run           \* history: the requests and the store of run 1

vars == <<kind, season, round_num, events_json, dirs, files, pc, caller, url, ret,
          clock, last_request_time, requests_this_hour, hour_start_time,
          requests_sent, upstream, disk, race_info, offset, all_pitstops,
          total_pitstops, response_data, pitstops_data, all_data, total_records,
          lap_data, outcome, reqLog, run, first_run>>

(***************************************************************************)
(* The upstream                                                            *)
(***************************************************************************)
\* The numbers of 429 answers and of slow requests so far in the job.
Count429(log) == Cardinality({ i \in 1..Len(log) : log[i].status = 429 })
CountSlow(log) == Cardinality({ i \in 1..Len(log) : log[i].end > log[i].start })

Durations == IF CountSlow(reqLog) < MaxSlow THEN {0, SlowRequest} ELSE {0}

\* The total the upstream declares: any on the first page of a collection,
\* the same again on the later pages.
Totals(u) ==
    IF u.offset = 0 \/ reqLog = <<>> THEN 0..MaxTotal
    ELSE LET first == { i \in 1..Len(reqLog) : reqLog[i].status = 200 } IN
         IF first = {} THEN 0..MaxTotal
         ELSE { reqLog[CHOOSE i \in first : \A j \in first : i <= j].body.total }

\* The 200 body of a resource that is not paginated: the description of one
\* race ("nokey": Races[0] exists), the race list of the season ("races":
\* Races is UpstreamRaces), an empty race list ("noraces") or any other
\* document ("data": standings, qualifying or sprint results).
Document(s) == [total |-> 1, offset |-> 0, shape |-> s, recs |-> <<>>]

\* The 200 bodies the upstream may serve for the request u.
Bodies(u) ==
    IF u.res \in {"pitstops", "laps"}
    THEN { b \in PageBodies(u.offset) : b.total \in Totals(u) }
    ELSE IF u.res = "race" THEN { Document("nokey"), Document("noraces") }
    ELSE IF u.res = "races" THEN { Document("races"), Document("noraces") }
    ELSE { Document("data") }

\* A steady upstream answers every request at once with 200.
SteadyResponses(u) ==
    { [raised |-> FALSE, status |-> 200, body |-> b, dur |-> 0] :
        b \in { c \in Bodies(u) : c.shape \in {"nokey", "data"} } }

\* A throttling upstream answers at once, and with 429 as often as it likes
\* up to MaxThrottled times in one job.
ThrottledResponses(u) ==
    { [raised |-> FALSE, status |-> 429, body |-> ErrorBody, dur |-> 0] :
        n \in IF Count429(reqLog) < MaxThrottled THEN {0} ELSE {} }
    \cup { [raised |-> FALSE, status |-> 500, body |-> ErrorBody, dur |-> 0] }
    \cup { [raised |-> FALSE, status |-> 200, body |-> b, dur |-> 0] : b \in Bodies(u) }

\* A paging upstream answers every request at once, with 200 and a page of
\* any number of records, after at most Max429 answers of 429 in the job.
PagingResponses(u) ==
    { [raised |-> FALSE, status |-> 429, body |-> ErrorBody, dur |-> 0] :
        n \in IF Count429(reqLog) < Max429 THEN {0} ELSE {} }
    \cup { [raised |-> FALSE, status |-> 200, body |-> b, dur |-> 0] : b \in Bodies(u) }

\* The requests the model follows one job for. Against a paging upstream it
\* is one more than a collection of MaxTotal records takes when every page
\* brings a record, the retries after 429 not counted.
RequestCap ==
    IF upstream = "throttled" THEN MaxThrottled + 2
    ELSE IF upstream = "paging" THEN MaxTotal + 1 + Max429
    ELSE MaxRequests

\* The answers of a run that were not 429, in their order.
Not429(e) == e.status # 429
Without429(log) == SelectSeq(log, Not429)

\* The answers of a run to its requests other than those for the race list.
NotRaceList(e) == e.url.res # "races"
WithoutRaceList(log) == SelectSeq(log, NotRaceList)

\* In the second run the upstream answers request after request as it did
\* in the first; in a run "without 429" as in the first but for its 429s; in
\* a run "with index" as in the first but for the race-list request.
Replayed(u) ==
    LET i == Len(reqLog) + 1
        log == IF run = 3 THEN Without429(first_run.log)
               ELSE IF run = 4 THEN WithoutRaceList(first_run.log)
               ELSE first_run.log
    IN  IF i <= Len(log) /\ log[i].url = u
        THEN { [raised |-> log[i].raised, status |-> log[i].status,
                body |-> log[i].body, dur |-> log[i].end - log[i].start] }
        ELSE {}

\* What requests.get(u) may do: raise (a connection-level failure) or answer.
Responses(u) ==
    IF run # 1 THEN Replayed(u) ELSE
    IF upstream = "steady" THEN SteadyResponses(u) ELSE
    IF upstream = "throttled" THEN ThrottledResponses(u) ELSE
    IF upstream = "paging" THEN PagingResponses(u) ELSE
    { [raised |-> TRUE, status |-> 0, body |-> None, dur |-> d] : d \in Durations }
    \cup { [raised |-> FALSE, status |-> 500, body |-> ErrorBody, dur |-> d] :
              d \in Durations }
    \cup { [raised |-> FALSE, status |-> 429, body |-> ErrorBody, dur |-> d] :
              d \in IF Count429(reqLog) < Max429 THEN Durations ELSE {} }
    \cup { [raised |-> FALSE, status |-> 200, body |-> b, dur |-> d] :
              b \in Bodies(u), d \in Durations }

\* The history entry of request u answered by r, sent at time t.
LoggedAt(u, r, t) ==
    [url |-> u, start |-> t, end |-> t + r.dur,
     status |-> r.status, raised |-> r.raised, body |-> r.body]

Logged(u, r) == LoggedAt(u, r, clock)

jobArgs == <<kind, season, round_num, events_json, upstream, disk, run, first_run>>
hourly == <<requests_this_hour, hour_start_time, requests_sent>>
fs == <<dirs, files>>
pitLocals == <<all_pitstops, total_pitstops, response_data, pitstops_data>>
lapLocals == <<all_data, total_records, lap_data>>

\* The job ends: it returned normally with this status, or an exception
\* left it ("raised").
Finish(status) == pc' = "done" /\ outcome' = status

(***************************************************************************)
(* PitstopsFetcher (f1 data/pitstops.py)                                   *)
(***************************************************************************)
\* A make_request that never sleeps before the request.
BurstWaitSkipped(now, last) == now

\* make_request, lines 46-52: the time at which the request may go out.
BurstWait(now, last) ==
    LET time_since_last_request == now - last IN
    IF time_since_last_request < Second \div burst_limit
    THEN now + ((Second \div burst_limit) - time_since_last_request)
    ELSE now

\* A make_request that returns the JSON body whatever the status.
MakeRequestResult_AnyStatus(status, body) == body

\* make_request, lines 63-69: the value returned for a response that is not 429.
MakeRequestResult(status, body) == IF status # 200 THEN None ELSE body

\* A make_request without the 429 branch.
RateLimitedIgnored(status) == FALSE

\* A make_request that gives up at the third 429 of the job.
RateLimited_TwoRetries(status) == status = 429 /\ Count429(reqLog) < 2

\* make_request, line 58: the response asks for a retry.
RateLimited(status) == status = 429

\* make_request, lines 46-52.
MakeRequestWait ==
    /\ pc = "mr_wait"
    /\ clock' = BurstWait(clock, last_request_time)
    /\ pc' = "mr_get"
    /\ UNCHANGED <<jobArgs, hourly, fs, caller, url, ret, last_request_time, race_info,
                   offset, pitLocals, lapLocals, outcome, reqLog>>

\* make_request, lines 55-69. requests.get has no handler around it here or
\* in the callers: a connection failure leaves the job as an exception.
MakeRequestGet ==
    /\ pc = "mr_get"
    /\ Len(reqLog) < RequestCap
    /\ \E r \in Responses(url) :
        /\ reqLog' = Append(reqLog, Logged(url, r))
        /\ clock' = clock + r.dur
        /\ IF r.raised
           THEN /\ Finish("raised")
                /\ UNCHANGED <<last_request_time, ret>>
           ELSE /\ last_request_time' = clock'
                /\ UNCHANGED outcome
                /\ IF RateLimited(r.status)
                   THEN pc' = "mr_backoff" /\ UNCHANGED ret
                   ELSE pc' = caller /\ ret' = MakeRequestResult(r.status, r.body)
    /\ UNCHANGED <<jobArgs, hourly, fs, caller, url, race_info, offset, pitLocals, lapLocals>>

\* A sleep of three seconds after a 429.
rate_limit_sleep_Short == 3 * Second

\* make_request, line 60: time.sleep(30) after a 429.
rate_limit_sleep == 30 * Second

\* make_request, lines 58-61: sleep 30 seconds, then the same URL again.
MakeRequestBackoff ==
    /\ pc = "mr_backoff"
    /\ clock' = clock + rate_limit_sleep
    /\ pc' = "mr_wait"
    /\ UNCHANGED <<jobArgs, hourly, fs, caller, url, ret, last_request_time, race_info,
                   offset, pitLocals, lapLocals, outcome, reqLog>>

\* A get_race_info that takes the race list of the upstream when the season
\* has no events.json.
get_race_info_FromUpstream(index, n) ==
    LET races == IF ~index.exists THEN UpstreamRaces
                 ELSE IF index.wellformed THEN index.races ELSE <<>>
        hits == { i \in 1..Len(races) : races[i].round = Str(n) }
    IN  IF hits = {} THEN NoRace
        ELSE races[CHOOSE i \in hits : \A j \in hits : i <= j]

\* get_race_info, lines 71-99: the first race of the index whose round is
\* str(round_num), or None.
get_race_info(index, n) ==
    IF ~index.exists THEN NoRace
    ELSE IF ~index.wellformed THEN NoRace
    ELSE LET hits == { i \in 1..Len(index.races) : index.races[i].round = Str(n) } IN
         IF hits = {} THEN NoRace
         ELSE index.races[CHOOSE i \in hits : \A j \in hits : i <= j]

\* get_race_folder_name, lines 101-104.
get_race_folder_name(race) ==
    Replace(Replace(LowerAll(race.raceName), " ", <<"-">>), "'", <<>>)

PitUrl(o) == [res |-> "pitstops", offset |-> o]

\* A collector that puts the records of a page before those it holds.
ExtendPitstopsInFront(all, page) ==
    IF HasRace(page) /\ page.shape = "full" THEN page.recs \o all ELSE all

\* fetch_pitstops_for_race, lines 138-145 and 160-167: the records of a page
\* are appended when the page has a race with a PitStops key.
ExtendPitstops(all, page) ==
    IF HasRace(page) /\ page.shape = "full" THEN all \o page.recs ELSE all

\* fetch_pitstops_for_race, line 148.
MorePitstops(all, total) == Len(all) < total

\* A collector that advances by two pages at a time.
NextOffsetSkipping(o) == o + 2 * limit

\* fetch_pitstops_for_race, line 149.
NextOffset(o) == o + limit

\* A gate that lets the season 2010 through.
BeforePitstopData_From2010(s) == s < 2010

\* run, line 186: the seasons the upstream has no pit-stop data for.
BeforePitstopData(s) == s < 2011

\* run, lines 183-213, up to the first request of fetch_pitstops_for_race
\* (lines 113-120).
PitRun ==
    /\ kind = "pitstops" /\ pc = "start"
    /\ IF BeforePitstopData(season)
       THEN /\ Finish("skipped")
            /\ UNCHANGED <<fs, caller, url, race_info, offset, pitLocals>>
       ELSE LET found == get_race_info(events_json, round_num) IN
            /\ race_info' = found
            /\ IF found = NoRace
               THEN /\ Finish("skipped")
                    /\ UNCHANGED <<fs, caller, url, offset, pitLocals>>
               ELSE /\ dirs' = dirs \cup {get_race_folder_name(found)}
                    /\ offset' = 0
                    /\ all_pitstops' = <<>>
                    /\ total_pitstops' = NoTotal
                    /\ url' = PitUrl(0)
                    /\ caller' = "pit_first"
                    /\ pc' = "mr_wait"
                    /\ UNCHANGED <<files, response_data, pitstops_data, outcome>>
    /\ UNCHANGED <<jobArgs, hourly, ret, clock, last_request_time, lapLocals, reqLog>>

\* fetch_pitstops_for_race, lines 120-145: the first page.
PitFirst ==
    /\ pc = "pit_first"
    /\ response_data' = ret
    /\ IF ~Truthy(ret)
       THEN /\ pitstops_data' = None
            /\ pc' = "pit_persist"
            /\ UNCHANGED <<total_pitstops, all_pitstops>>
       ELSE /\ total_pitstops' = ret.total
            /\ IF ret.total = 0
               THEN /\ pitstops_data' = ret
                    /\ pc' = "pit_persist"
                    /\ UNCHANGED all_pitstops
               ELSE /\ all_pitstops' = ExtendPitstops(all_pitstops, ret)
                    /\ pc' = "pit_loop"
                    /\ UNCHANGED pitstops_data
    /\ UNCHANGED <<jobArgs, hourly, fs, caller, url, ret, clock, last_request_time,
                   race_info, offset, lapLocals, outcome, reqLog>>

\* fetch_pitstops_for_race, lines 148-151: the loop test and the next request.
PitLoop ==
    /\ pc = "pit_loop"
    /\ IF MorePitstops(all_pitstops, total_pitstops)
       THEN /\ offset' = NextOffset(offset)
            /\ url' = PitUrl(offset')
            /\ caller' = "pit_page"
            /\ pc' = "mr_wait"
       ELSE /\ pc' = "pit_finish"
            /\ UNCHANGED <<offset, url, caller>>
    /\ UNCHANGED <<jobArgs, hourly, fs, ret, clock, last_request_time, race_info,
                   all_pitstops, total_pitstops, response_data, pitstops_data,
                   lapLocals, outcome, reqLog>>

\* fetch_pitstops_for_race, lines 151-167: a later page; no data ends the loop.
PitPage ==
    /\ pc = "pit_page"
    /\ response_data' = ret
    /\ IF ~Truthy(ret)
       THEN pc' = "pit_finish" /\ UNCHANGED all_pitstops
       ELSE pc' = "pit_loop" /\ all_pitstops' = ExtendPitstops(all_pitstops, ret)
    /\ UNCHANGED <<jobArgs, hourly, fs, caller, url, ret, clock, last_request_time,
                   race_info, offset, total_pitstops, pitstops_data, lapLocals,
                   outcome, reqLog>>

\* fetch_pitstops_for_race, lines 169-181. response_data is the last value
\* make_request returned: after a failed page it is None, and line 172
\* subscripts it (TypeError) as soon as all_pitstops is not empty.
PitFinish ==
    /\ pc = "pit_finish"
    /\ IF Len(all_pitstops) > 0 /\ ~Truthy(response_data)
       THEN /\ Finish("raised")
            /\ UNCHANGED <<response_data, pitstops_data>>
       ELSE /\ response_data' =
                  IF Len(all_pitstops) > 0 /\ HasRace(response_data)
                  THEN [response_data EXCEPT !.shape = "full", !.recs = all_pitstops]
                  ELSE response_data
            /\ pitstops_data' = response_data'
            /\ pc' = "pit_persist"
            /\ UNCHANGED outcome
    /\ UNCHANGED <<jobArgs, hourly, fs, caller, url, ret, clock, last_request_time,
                   race_info, offset, all_pitstops, total_pitstops, lapLocals, reqLog>>

PitPath == <<season, get_race_folder_name(race_info), "pitstops.json">>

\* run, lines 213-220. open and json.dump are outside any try.
PitPersist ==
    /\ pc = "pit_persist"
    /\ IF Truthy(pitstops_data)
       THEN IF disk = "ok"
            THEN /\ files' = Write(files, PitPath, pitstops_data)
                 /\ Finish("persisted")
            ELSE /\ files' \in WriteFails(files, PitPath)
                 /\ Finish("raised")
       ELSE /\ Finish("failed")
            /\ UNCHANGED files
    /\ UNCHANGED <<jobArgs, hourly, dirs, caller, url, ret, clock, last_request_time,
                   race_info, offset, pitLocals, lapLocals, reqLog>>

(***************************************************************************)
(* Lap times (f1 data/laptimes.py)                                         *)
(***************************************************************************)
LapUrl(o) == [res |-> "laps", offset |-> o]

\* The display name the upstream gives the event of a round (Races[0].raceName
\* of every body that has a race).
UpstreamRaceName(n) == IF n = 2 THEN RaceB.raceName ELSE RaceA.raceName

\* save_laptimes, lines 69-71: the folder name.
laptimes_race_name(name) == Replace(LowerAll(name), " ", <<"-">>)

\* fetch_laptimes, line 29.
MoreLaps(o, total) == total = NoTotal \/ o < total

\* main, lines 87-93, and fetch_laptimes, lines 25-31: up to the first request.
LapMain ==
    /\ kind = "laptimes" /\ pc = "start"
    /\ all_data' = None
    /\ offset' = 0
    /\ total_records' = NoTotal
    /\ url' = LapUrl(0)
    /\ pc' = "lap_get"
    /\ UNCHANGED <<jobArgs, hourly, fs, caller, ret, clock, last_request_time, race_info,
                   pitLocals, lap_data, outcome, reqLog>>

\* fetch_laptimes, lines 33-35 and 55-61: the request. raise_for_status turns
\* every error status into a RequestException; a connection failure is one
\* too, with no response. 429 sleeps and repeats the iteration; every other
\* exception returns None.
LapGet ==
    /\ pc = "lap_get"
    /\ Len(reqLog) < RequestCap
    /\ \E r \in Responses(url) :
        /\ reqLog' = Append(reqLog, Logged(url, r))
        /\ clock' = clock + r.dur
        /\ IF ~r.raised /\ r.status = 200
           THEN /\ ret' = r.body
                /\ pc' = "lap_merge"
                /\ UNCHANGED lap_data
           ELSE IF ~r.raised /\ r.status = 429
           THEN /\ pc' = "lap_backoff"
                /\ UNCHANGED <<ret, lap_data>>
           ELSE /\ lap_data' = None
                /\ pc' = "lap_save"
                /\ UNCHANGED ret
    /\ UNCHANGED <<jobArgs, hourly, fs, caller, url, last_request_time, race_info, offset,
                   pitLocals, all_data, total_records, outcome>>

\* fetch_laptimes, lines 56-59: sleep 60 seconds and continue: the loop test
\* holds as before and the same URL is built again.
LapBackoff ==
    /\ pc = "lap_backoff"
    /\ clock' = clock + 60 * Second
    /\ pc' = "lap_get"
    /\ UNCHANGED <<jobArgs, hourly, fs, caller, url, ret, last_request_time, race_info,
                   offset, pitLocals, lapLocals, outcome, reqLog>>

\* fetch_laptimes, lines 38-48: the merged document after the page.
\* Races[0] of an empty Races list and ["Laps"] of a race without that key
\* raise (IndexError, KeyError), which no handler of the script catches.
LapMergeRaises(all, page) ==
    /\ all # None
    /\ \/ ~HasRace(page)
       \/ page.shape = "full" /\ all.shape # "full"

LapMerged(all, page) ==
    IF all = None THEN page
    ELSE IF page.shape = "full" THEN [all EXCEPT !.recs = @ \o page.recs]
    ELSE all

\* fetch_laptimes, lines 36-53, then the loop test and the next URL (29-31)
\* or the return (63).
LapMerge ==
    /\ pc = "lap_merge"
    /\ IF LapMergeRaises(all_data, ret)
       THEN /\ Finish("raised")
            /\ UNCHANGED <<url, clock, offset, lapLocals>>
       ELSE /\ all_data' = LapMerged(all_data, ret)
            /\ total_records' = IF all_data = None THEN ret.total ELSE total_records
            /\ offset' = offset + LIMIT
            /\ clock' = clock + (Second \div laptimes_RATE_LIMIT_BURST)
            /\ UNCHANGED outcome
            /\ IF MoreLaps(offset', total_records')
               THEN /\ url' = LapUrl(offset')
                    /\ pc' = "lap_get"
                    /\ UNCHANGED lap_data
               ELSE /\ lap_data' = all_data'
                    /\ pc' = "lap_save"
                    /\ UNCHANGED url
    /\ UNCHANGED <<jobArgs, hourly, fs, caller, ret, last_request_time, race_info,
                   pitLocals, reqLog>>

LapPath == <<season, laptimes_race_name(UpstreamRaceName(round_num)), "laptimes.json">>

\* main, lines 95-102, with save_laptimes, lines 66-84. The folder name is
\* read from Races[0] of the document: IndexError when Races is empty.
LapSave ==
    /\ pc = "lap_save"
    /\ IF ~Truthy(lap_data)
       THEN /\ Finish("failed")
            /\ UNCHANGED fs
       ELSE IF ~HasRace(lap_data)
       THEN /\ Finish("raised")
            /\ UNCHANGED fs
       ELSE /\ dirs' = dirs \cup {laptimes_race_name(UpstreamRaceName(round_num))}
            /\ IF disk = "ok"
               THEN /\ files' = Write(files, LapPath, lap_data)
                    /\ Finish("persisted")
               ELSE /\ files' \in WriteFails(files, LapPath)
                    /\ Finish("raised")
    /\ UNCHANGED <<jobArgs, hourly, caller, url, ret, clock, last_request_time, race_info,
                   offset, pitLocals, lapLocals, reqLog>>

(***************************************************************************)
(* ConstructorStandingsFetcher (f1 data/team_points.py)                    *)
(***************************************************************************)
\* reset_hour_counter_if_needed, lines 35-41, on the pair <<counter, start>>.
reset_hour_counter_if_needed(now, count, start) ==
    IF now - start > 3600 * Second THEN <<0, now>> ELSE <<count, start>>

\* check_rate_limits, lines 43-59: the time, the counter and the window start
\* when the call returns.
check_rate_limits(now, count, start) ==
    LET reset == reset_hour_counter_if_needed(now, count, start)
        wait_time == 1800 * Second - (now - reset[2])
        waited == reset[1] >= SUSTAINED_LIMIT /\ wait_time > 0
        after == IF waited THEN now + wait_time ELSE now
    IN  [clock |-> after + REQUEST_DELAY,
         requests_this_hour |-> IF waited THEN 0 ELSE reset[1],
         hour_start_time |-> IF waited THEN after ELSE reset[2]]

\* make_request, line 63.
TeamCheckRateLimits ==
    /\ pc = "team_check"
    /\ LET c == check_rate_limits(clock, requests_this_hour, hour_start_time) IN
        /\ clock' = c.clock
        /\ requests_this_hour' = c.requests_this_hour
        /\ hour_start_time' = c.hour_start_time
    /\ pc' = "team_get"
    /\ UNCHANGED <<jobArgs, requests_sent, fs, caller, url, ret, last_request_time, race_info,
                   offset, pitLocals, lapLocals, outcome, reqLog>>

\* make_request, lines 65-86: the request inside try; every exception, the
\* connection failure included, is caught and None returned. The counter is
\* incremented after requests.get returned.
TeamGet ==
    /\ pc = "team_get"
    /\ Len(reqLog) < RequestCap
    /\ \E r \in Responses(url) :
        /\ reqLog' = Append(reqLog, Logged(url, r))
        /\ requests_sent' = requests_sent + 1
        /\ clock' = clock + r.dur
        /\ IF r.raised
           THEN /\ ret' = None
                /\ pc' = caller
                /\ UNCHANGED requests_this_hour
           ELSE /\ requests_this_hour' = requests_this_hour + 1
                /\ IF r.status = 429
                   THEN pc' = "team_backoff" /\ UNCHANGED ret
                   ELSE pc' = caller /\ ret' = MakeRequestResult(r.status, r.body)
    /\ UNCHANGED <<jobArgs, hour_start_time, fs, caller, url, last_request_time,
                   race_info, offset, pitLocals, lapLocals, outcome>>

\* make_request, lines 69-74: sleep 30 seconds, then make_request(url) again.
TeamBackoff ==
    /\ pc = "team_backoff"
    /\ clock' = clock + 30 * Second
    /\ pc' = "team_check"
    /\ UNCHANGED <<jobArgs, hourly, fs, caller, url, ret, last_request_time,
                   race_info, offset, pitLocals, lapLocals, outcome, reqLog>>

\* fetch_standings_by_round, lines 115-122, and get_race_info, lines 88-91.
TeamStart ==
    /\ kind = "team" /\ pc = "start"
    /\ url' = [res |-> "race", offset |-> 0]
    /\ caller' = "team_race_info"
    /\ pc' = "team_check"
    /\ UNCHANGED <<jobArgs, hourly, fs, ret, clock, last_request_time, race_info,
                   offset, pitLocals, lapLocals, outcome, reqLog>>

\* fetch_standings_by_round, line 128.
team_race_name(name) == Replace(LowerAll(name), " ", <<"-">>)

\* get_race_info, lines 93-99, and fetch_standings_by_round, lines 124-136.
TeamRaceInfo ==
    /\ pc = "team_race_info"
    /\ IF ~Truthy(ret) \/ ~HasRace(ret)
       THEN /\ Finish("skipped")
            /\ UNCHANGED <<dirs, url, caller>>
       ELSE /\ dirs' = dirs \cup {team_race_name(UpstreamRaceName(round_num))}
            /\ url' = [res |-> "constructorstandings", offset |-> 0]
            /\ caller' = "team_standings"
            /\ pc' = "team_check"
            /\ UNCHANGED outcome
    /\ UNCHANGED <<jobArgs, hourly, files, ret, clock, last_request_time, race_info,
                   offset, pitLocals, lapLocals, reqLog>>

TeamPath == <<season, team_race_name(UpstreamRaceName(round_num)), "teamPoints.json">>

\* fetch_standings_by_round, lines 138-147, with save_json, lines 106-113,
\* which has no handler: an OSError leaves fetch_standings_by_round.
TeamStandings ==
    /\ pc = "team_standings"
    /\ IF Truthy(ret)
       THEN IF disk = "ok"
            THEN /\ files' = Write(files, TeamPath, ret)
                 /\ Finish("persisted")
            ELSE /\ files' \in WriteFails(files, TeamPath)
                 /\ Finish("raised")
       ELSE /\ Finish("failed")
            /\ UNCHANGED files
    /\ UNCHANGED <<jobArgs, hourly, dirs, caller, url, ret, clock, last_request_time,
                   race_info, offset, pitLocals, lapLocals, reqLog>>

\* __main__, lines 150-164: the next fetch_standings_by_round call of the
\* script, on the same fetcher. The model follows the script for one hour.
TeamNextJob ==
    /\ kind = "team" /\ pc = "done" /\ outcome # "raised"
    /\ clock < StartTime + 3600 * Second
    /\ pc' = "start"
    /\ outcome' = "running"
    /\ reqLog' = <<>>
    /\ UNCHANGED <<jobArgs, hourly, fs, caller, url, ret, clock, last_request_time,
                   race_info, offset, pitLocals, lapLocals>>

(***************************************************************************)
(* Driver standings (Stats/driver_points.py)                               *)
(***************************************************************************)
\* get_race_folder_name, lines 33-35 (the same in sprint_results.py, lines
\* 28-30, and quali_results.py, lines 31-33).
driver_get_race_folder_name(race) == Replace(LowerAll(race.raceName), " ", <<"-">>)

\* A loop without its break: the last race of the round, not the first.
driver_find_race_LastMatch(index, n) ==
    LET races == IF index.wellformed THEN index.races ELSE <<>>
        hits == { i \in 1..Len(races) : races[i].round = Str(n) }
    IN  IF hits = {} THEN NoRace
        ELSE races[CHOOSE i \in hits : \A j \in hits : j <= i]

\* process_round, lines 76-93: the race of the round, None when the index
\* has no races or none with that round.
driver_find_race(index, n) ==
    LET races == IF index.wellformed THEN index.races ELSE <<>>
        hits == { i \in 1..Len(races) : races[i].round = Str(n) }
    IN  IF hits = {} THEN NoRace
        ELSE races[CHOOSE i \in hits : \A j \in hits : i <= j]

\* process_round, lines 62-100, up to the request of fetch_driver_standings.
DriverProcessRound ==
    /\ kind = "driver" /\ pc = "start"
    /\ IF ~events_json.exists
       THEN /\ Finish("skipped")
            /\ UNCHANGED <<dirs, url, race_info>>
       ELSE LET race == driver_find_race(events_json, round_num) IN
            /\ race_info' = race
            /\ IF race = NoRace
               THEN /\ Finish("skipped")
                    /\ UNCHANGED <<dirs, url>>
               ELSE /\ dirs' = dirs \cup {driver_get_race_folder_name(race)}
                    /\ url' = [res |-> "driverstandings", offset |-> 0]
                    /\ pc' = "driver_fetch"
                    /\ UNCHANGED outcome
    /\ UNCHANGED <<jobArgs, hourly, files, caller, ret, clock, last_request_time,
                   offset, pitLocals, lapLocals, reqLog>>

\* fetch_with_rate_limit, lines 38-53: sleep REQUEST_DELAY, then the request,
\* which no handler surrounds.
DriverFetch ==
    /\ pc = "driver_fetch"
    /\ Len(reqLog) < RequestCap
    /\ \E r \in Responses(url) :
        /\ reqLog' = Append(reqLog, LoggedAt(url, r, clock + driver_REQUEST_DELAY))
        /\ clock' = clock + driver_REQUEST_DELAY + r.dur
        /\ IF r.raised
           THEN /\ Finish("raised")
                /\ UNCHANGED ret
           ELSE /\ UNCHANGED outcome
                /\ IF r.status = 429
                   THEN pc' = "driver_backoff" /\ UNCHANGED ret
                   ELSE pc' = "driver_save" /\ ret' = MakeRequestResult(r.status, r.body)
    /\ UNCHANGED <<jobArgs, hourly, fs, caller, url, last_request_time, race_info,
                   offset, pitLocals, lapLocals>>

\* fetch_with_rate_limit, lines 44-47.
DriverBackoff ==
    /\ pc = "driver_backoff"
    /\ clock' = clock + 30 * Second
    /\ pc' = "driver_fetch"
    /\ UNCHANGED <<jobArgs, hourly, fs, caller, url, ret, last_request_time,
                   race_info, offset, pitLocals, lapLocals, outcome, reqLog>>

DriverPath == <<season, driver_get_race_folder_name(race_info), "driverPoints.json">>

\* process_round, lines 100-106.
DriverSave ==
    /\ pc = "driver_save"
    /\ IF Truthy(ret)
       THEN IF disk = "ok"
            THEN /\ files' = Write(files, DriverPath, ret)
                 /\ Finish("persisted")
            ELSE /\ files' \in WriteFails(files, DriverPath)
                 /\ Finish("raised")
       ELSE /\ Finish("failed")
            /\ UNCHANGED files
    /\ UNCHANGED <<jobArgs, hourly, dirs, caller, url, ret, clock, last_request_time,
                   race_info, offset, pitLocals, lapLocals, reqLog>>

(***************************************************************************)
(* Event index (f1 data/events.py)                                         *)
(***************************************************************************)
\* A slugify that keeps the case of the name.
slugify_KeepCase(race_name) == Replace(race_name, " ", <<"-">>)

\* slugify, lines 11-14.
slugify(race_name) == Replace(LowerAll(race_name), " ", <<"-">>)

\* fetch_with_rate_limit, line 37: the value returned for a response that is
\* not 429 is its JSON body, whatever the status.
EventsResult(status, body) == body

\* events.json as main writes it (lines 61-62) from the value fetched.
IndexOf(data) ==
    [exists |-> TRUE,
     wellformed |-> data.shape \in {"races", "noraces"},
     races |-> IF data.shape = "races" THEN UpstreamRaces ELSE <<>>]

\* main, lines 41-58, up to the request.
EventsMain ==
    /\ kind = "events" /\ pc = "start"
    /\ url' = [res |-> "races", offset |-> 0]
    /\ pc' = "events_fetch"
    /\ UNCHANGED <<jobArgs, hourly, fs, caller, ret, clock, last_request_time,
                   race_info, offset, pitLocals, lapLocals, outcome, reqLog>>

\* fetch_with_rate_limit, lines 25-37: sleep 0.3 s, then the request.
EventsFetch ==
    /\ pc = "events_fetch"
    /\ Len(reqLog) < RequestCap
    /\ \E r \in Responses(url) :
        LET start == clock + (3 * Second) \div 10 IN
        /\ reqLog' = Append(reqLog, LoggedAt(url, r, start))
        /\ clock' = start + r.dur
        /\ IF r.raised
           THEN /\ Finish("raised")
                /\ UNCHANGED ret
           ELSE /\ UNCHANGED outcome
                /\ IF r.status = 429
                   THEN pc' = "events_backoff" /\ UNCHANGED ret
                   ELSE pc' = "events_save" /\ ret' = EventsResult(r.status, r.body)
    /\ UNCHANGED <<jobArgs, hourly, fs, caller, url, last_request_time, race_info,
                   offset, pitLocals, lapLocals>>

\* fetch_with_rate_limit, lines 32-35.
EventsBackoff ==
    /\ pc = "events_backoff"
    /\ clock' = clock + 60 * Second
    /\ pc' = "events_fetch"
    /\ UNCHANGED <<jobArgs, hourly, fs, caller, url, ret, last_request_time,
                   race_info, offset, pitLocals, lapLocals, outcome, reqLog>>

\* The event_info.json files of the races of an index.
EventInfoFiles(index) ==
    [ p \in { <<season, slugify(index.races[i].raceName), "event_info.json">> :
                i \in 1..Len(index.races) } |->
        LET hits == { i \in 1..Len(index.races) :
                        slugify(index.races[i].raceName) = p[2] } IN
        index.races[CHOOSE i \in hits : \A j \in hits : j <= i] ]

\* main, lines 60-84: events.json, then a folder and event_info.json per race.
\* No write has a handler: the first that fails ends the script.
EventsSave ==
    /\ pc = "events_save"
    /\ IF disk = "ok"
       THEN /\ events_json' = IndexOf(ret)
            /\ dirs' = dirs \cup { slugify(events_json'.races[i].raceName) :
                                     i \in 1..Len(events_json'.races) }
            /\ files' = EventInfoFiles(events_json') @@ files
            /\ Finish("persisted")
       ELSE /\ events_json' \in
                   { events_json, [exists |-> TRUE, wellformed |-> FALSE, races |-> <<>>] }
            /\ UNCHANGED fs
            /\ Finish("raised")
    /\ UNCHANGED <<kind, season, round_num, upstream, disk, run, first_run, hourly, caller,
                   url, ret, clock, last_request_time, race_info, offset, pitLocals,
                   lapLocals, reqLog>>

(***************************************************************************)
(* Sprint results (f1 data/sprint_results.py)                              *)
(* make_request, lines 32-58, is that of pitstops.py: MakeRequestWait,     *)
(* MakeRequestGet, MakeRequestBackoff.                                     *)
(***************************************************************************)
\* A lookup that returns the loop variable after the loop: the last race of
\* the list when no round matches.
sprint_lookup_LastRace(index, n) ==
    IF ~index.wellformed THEN NoRace
    ELSE LET hits == { i \in 1..Len(index.races) : index.races[i].round = Str(n) } IN
         IF hits # {} THEN index.races[CHOOSE i \in hits : \A j \in hits : i <= j]
         ELSE IF index.races = <<>> THEN NoRace
         ELSE index.races[Len(index.races)]

\* get_race_info, lines 83-101: the race looked up in events.json.
sprint_lookup(index, n) ==
    IF ~index.wellformed THEN NoRace
    ELSE LET hits == { i \in 1..Len(index.races) : index.races[i].round = Str(n) } IN
         IF hits = {} THEN NoRace
         ELSE index.races[CHOOSE i \in hits : \A j \in hits : i <= j]

\* A fallback lookup that returns the loop variable after the loop: the last
\* race of the list when no round matches.
sprint_api_lookup_LastRace(data, n) ==
    IF ~Truthy(data) \/ data.shape \notin {"races", "noraces"} THEN NoRace
    ELSE LET races == IF data.shape = "races" THEN UpstreamRaces ELSE <<>>
             hits == { i \in 1..Len(races) : races[i].round = Str(n) }
         IN  IF hits # {} THEN races[CHOOSE i \in hits : \A j \in hits : i <= j]
             ELSE IF races = <<>> THEN NoRace
             ELSE races[Len(races)]

\* get_race_info, lines 69-81: the race looked up in the body of the
\* race-list response; None when the body is None or lacks the keys.
sprint_api_lookup(data, n) ==
    IF ~Truthy(data) \/ data.shape \notin {"races", "noraces"} THEN NoRace
    ELSE LET races == IF data.shape = "races" THEN UpstreamRaces ELSE <<>>
             hits == { i \in 1..Len(races) : races[i].round = Str(n) }
         IN  IF hits = {} THEN NoRace
             ELSE races[CHOOSE i \in hits : \A j \in hits : i <= j]

\* A has_sprint that takes every race for a sprint weekend.
has_sprint_Always(race) == TRUE

\* has_sprint, lines 103-105.
has_sprint(race) == race.Sprint

\* fetch_sprint_for_round, lines 135-157, once get_race_info returned race.
SprintLocated(race) ==
    /\ race_info' = race
    /\ IF race = NoRace \/ ~has_sprint(race)
       THEN /\ Finish("skipped")
            /\ UNCHANGED <<dirs, url, caller>>
       ELSE /\ dirs' = dirs \cup {driver_get_race_folder_name(race)}
            /\ url' = [res |-> "sprint", offset |-> 0]
            /\ caller' = "sprint_save"
            /\ pc' = "mr_wait"
            /\ UNCHANGED outcome

\* fetch_sprint_for_round, lines 124-133, and get_race_info, lines 60-68 and
\* 83-101: the index when events.json exists, else a request for the race list.
SprintStart ==
    /\ kind = "sprint" /\ pc = "start"
    /\ IF events_json.exists
       THEN SprintLocated(sprint_lookup(events_json, round_num))
       ELSE /\ url' = [res |-> "races", offset |-> 0]
            /\ caller' = "sprint_fallback"
            /\ pc' = "mr_wait"
            /\ UNCHANGED <<dirs, race_info, outcome>>
    /\ UNCHANGED <<jobArgs, hourly, files, ret, clock, last_request_time, offset,
                   pitLocals, lapLocals, reqLog>>

\* get_race_info, lines 68-81: the race list fetched from the API.
SprintFallback ==
    /\ pc = "sprint_fallback"
    /\ SprintLocated(sprint_api_lookup(ret, round_num))
    /\ UNCHANGED <<jobArgs, hourly, files, ret, clock, last_request_time, offset,
                   pitLocals, lapLocals, reqLog>>

SprintPath ==
    <<season, driver_get_race_folder_name(race_info), "sprint_results.json">>

\* fetch_sprint_for_round, lines 157-166, with save_json, lines 112-122:
\* save_json catches the OSError and returns False, which is returned.
SprintSave ==
    /\ pc = "sprint_save"
    /\ IF Truthy(ret)
       THEN IF disk = "ok"
            THEN /\ files' = Write(files, SprintPath, ret)
                 /\ Finish("persisted")
            ELSE /\ files' \in WriteFails(files, SprintPath)
                 /\ Finish("failed")
       ELSE /\ Finish("failed")
            /\ UNCHANGED files
    /\ UNCHANGED <<jobArgs, hourly, dirs, caller, url, ret, clock, last_request_time,
                   race_info, offset, pitLocals, lapLocals, reqLog>>

(***************************************************************************)
(* Qualifying results (f1 data/quali_results.py)                           *)
(* make_request, lines 35-61, is that of pitstops.py.                      *)
(***************************************************************************)
\* fetch_round, lines 94-105, and get_race_info, lines 63-66.
QualiStart ==
    /\ kind = "quali" /\ pc = "start"
    /\ url' = [res |-> "race", offset |-> 0]
    /\ caller' = "quali_race_info"
    /\ pc' = "mr_wait"
    /\ UNCHANGED <<jobArgs, hourly, fs, ret, clock, last_request_time, race_info,
                   offset, pitLocals, lapLocals, outcome, reqLog>>

\* get_race_info, lines 67-75, and fetch_round, lines 107-118.
QualiRaceInfo ==
    /\ pc = "quali_race_info"
    /\ IF ~Truthy(ret) \/ ~HasRace(ret)
       THEN /\ Finish("skipped")
            /\ UNCHANGED <<dirs, url, caller>>
       ELSE /\ dirs' = dirs \cup {slugify(UpstreamRaceName(round_num))}
            /\ url' = [res |-> "qualifying", offset |-> 0]
            /\ caller' = "quali_save"
            /\ pc' = "mr_wait"
            /\ UNCHANGED outcome
    /\ UNCHANGED <<jobArgs, hourly, files, ret, clock, last_request_time, race_info,
                   offset, pitLocals, lapLocals, reqLog>>

QualiPath == <<season, slugify(UpstreamRaceName(round_num)), "quali_results.json">>

\* fetch_round, lines 118-127, with save_json, lines 82-92: save_json
\* catches the OSError and returns False; fetch_round drops that value and
\* logs "Successfully fetched" (lines 122-125) either way.
QualiSave ==
    /\ pc = "quali_save"
    /\ IF Truthy(ret)
       THEN /\ IF disk = "ok"
               THEN files' = Write(files, QualiPath, ret)
               ELSE files' \in WriteFails(files, QualiPath)
            /\ Finish("persisted")
       ELSE /\ Finish("failed")
            /\ UNCHANGED files
    /\ UNCHANGED <<jobArgs, hourly, dirs, caller, url, ret, clock, last_request_time,
                   race_info, offset, pitLocals, lapLocals, reqLog>>

(***************************************************************************)
(* Specification                                                           *)
(***************************************************************************)
Kinds == {"pitstops", "laptimes", "team", "driver", "events", "sprint", "quali"}

InitJob ==
    /\ kind \in Kinds
    /\ season \in IF kind = "pitstops" THEN Seasons ELSE {2025}
    /\ round_num \in IF kind = "pitstops" THEN {2, 3}
                      ELSE IF kind \in ReadsIndex THEN Rounds ELSE {1, 2}
    /\ events_json \in IF kind \in ReadsIndex THEN EventIndexes
                        ELSE { i \in EventIndexes :
                                 i.exists = i.wellformed /\ Len(i.races) <= Len(UpstreamRaces) }
    /\ dirs = { p[2] : p \in DOMAIN OldFiles }
    /\ files = OldFiles
    /\ pc = "start"
    /\ caller = "none"
    /\ url = PitUrl(0)
    /\ ret = None
    /\ clock = StartTime
    /\ last_request_time = 0
    /\ requests_this_hour = 0
    /\ hour_start_time = clock
    /\ requests_sent = 0
    /\ race_info = NoRace
    /\ offset = 0
    /\ all_pitstops = <<>>
    /\ total_pitstops = NoTotal
    /\ response_data = None
    /\ pitstops_data = None
    /\ all_data = None
    /\ total_records = NoTotal
    /\ lap_data = None
    /\ outcome = "running"
    /\ reqLog = <<>>
    /\ run = 1
    /\ first_run = [log |-> <<>>, files |-> files, events_json |-> events_json,
                    pitstops_data |-> None, lap_data |-> None, outcome |-> "running"]

\* The script is started once more with the same arguments: a new process
\* and a new fetcher, on the store the first run left.
Rerun(n) ==
    /\ pc = "done" /\ run = 1
    /\ run' = n
    /\ first_run' = [log |-> reqLog, files |-> files, events_json |-> events_json,
                     pitstops_data |-> pitstops_data, lap_data |-> lap_data,
                     outcome |-> outcome]
    /\ pc' = "start"
    /\ caller' = "none"
    /\ url' = PitUrl(0)
    /\ ret' = None
    /\ last_request_time' = 0
    /\ requests_this_hour' = 0
    /\ hour_start_time' = clock
    /\ requests_sent' = 0
    /\ race_info' = NoRace
    /\ offset' = 0
    /\ all_pitstops' = <<>>
    /\ total_pitstops' = NoTotal
    /\ response_data' = None
    /\ pitstops_data' = None
    /\ all_data' = None
    /\ total_records' = NoTotal
    /\ lap_data' = None
    /\ outcome' = "running"
    /\ reqLog' = <<>>
    /\ UNCHANGED <<kind, season, round_num, upstream, disk, clock>>

\* The same job once more on the store the first run left.
RunAgain == Rerun(2) /\ UNCHANGED <<events_json, fs>>

\* The same job from the same store as the first run, the upstream giving
\* the answers of the first run but none of its 429s.
RunWithout429 ==
    /\ Rerun(3)
    /\ files' = OldFiles
    /\ dirs' = { p[2] : p \in DOMAIN OldFiles }
    /\ UNCHANGED events_json

\* The same job from the same store, but with an events.json that holds the
\* race list the first run was served, the upstream giving the other answers
\* of the first run.
RunWithIndex ==
    /\ Rerun(4)
    /\ \E i \in 1..Len(reqLog) :
          /\ reqLog[i].url.res = "races" /\ reqLog[i].status = 200
          /\ events_json' = IndexOf(reqLog[i].body)
    /\ files' = OldFiles
    /\ dirs' = { p[2] : p \in DOMAIN OldFiles }

Init == upstream = "any" /\ disk = "ok" /\ InitJob

Next ==
    \/ PitRun
    \/ MakeRequestWait
    \/ MakeRequestGet
    \/ MakeRequestBackoff
    \/ PitFirst
    \/ PitLoop
    \/ PitPage
    \/ PitFinish
    \/ PitPersist
    \/ LapMain
    \/ LapGet
    \/ LapBackoff
    \/ LapMerge
    \/ LapSave
    \/ TeamStart
    \/ TeamCheckRateLimits
    \/ TeamGet
    \/ TeamBackoff
    \/ TeamRaceInfo
    \/ TeamStandings
    \/ DriverProcessRound
    \/ DriverFetch
    \/ DriverBackoff
    \/ DriverSave
    \/ EventsMain
    \/ EventsFetch
    \/ EventsBackoff
    \/ EventsSave
    \/ SprintStart
    \/ SprintFallback
    \/ SprintSave
    \/ QualiStart
    \/ QualiRaceInfo
    \/ QualiSave

Spec == Init /\ [][Next]_vars

\* The job, then the same job once more against the same answers.
NextTwice == Next \/ RunAgain

\* The indexes of the repeated job are those the events job writes.
InitTwice == Init /\ Len(events_json.races) <= Len(UpstreamRaces)

SpecTwice == InitTwice /\ [][NextTwice]_vars

\* The job on a disk that may refuse every write.
InitIO == upstream = "any" /\ disk \in {"ok", "failing"} /\ InitJob

SpecIO == InitIO /\ [][Next]_vars

\* The constructor-standings script run for an hour against a steady upstream.
InitSustained ==
    /\ upstream = "steady"
    /\ disk = "ok"
    /\ InitJob
    /\ kind = "team"
    /\ season = 2025
    /\ round_num = 1
    /\ events_json.exists /\ events_json.wellformed

NextSustained ==
    \/ TeamStart
    \/ TeamCheckRateLimits
    \/ TeamGet
    \/ TeamRaceInfo
    \/ TeamStandings
    \/ TeamNextJob

SpecSustained == InitSustained /\ [][NextSustained]_vars

\* The two collectors against an upstream that throttles, then once more
\* without the 429s.
InitWithout429 ==
    /\ upstream = "throttled"
    /\ disk = "ok"
    /\ InitJob
    /\ kind \in {"pitstops", "laptimes"}
    /\ season = 2025 /\ round_num = 2
    /\ events_json.wellformed /\ events_json.races = UpstreamRaces

NextWithout429 ==
    \/ PitRun
    \/ MakeRequestWait
    \/ MakeRequestGet
    \/ MakeRequestBackoff
    \/ PitFirst
    \/ PitLoop
    \/ PitPage
    \/ PitFinish
    \/ PitPersist
    \/ LapMain
    \/ LapGet
    \/ LapBackoff
    \/ LapMerge
    \/ LapSave
    \/ RunWithout429

SpecWithout429 == InitWithout429 /\ [][NextWithout429]_vars

\* The sprint job of a season without events.json, then once more with an
\* events.json that holds the race list it was served.
InitFallback ==
    /\ Init
    /\ kind = "sprint"
    /\ ~events_json.exists

NextFallback ==
    \/ SprintStart
    \/ MakeRequestWait
    \/ MakeRequestGet
    \/ MakeRequestBackoff
    \/ SprintFallback
    \/ SprintSave
    \/ RunWithIndex

SpecFallback == InitFallback /\ [][NextFallback]_vars

\* The pit-stop collector against a paging upstream; every step that can be
\* taken is taken in the end.
InitPaging ==
    /\ upstream = "paging"
    /\ disk = "ok"
    /\ InitJob
    /\ kind = "pitstops"
    /\ season = 2025 /\ round_num = 2
    /\ events_json.wellformed /\ events_json.races = UpstreamRaces

NextPaging ==
    \/ PitRun
    \/ MakeRequestWait
    \/ MakeRequestGet
    \/ MakeRequestBackoff
    \/ PitFirst
    \/ PitLoop
    \/ PitPage
    \/ PitFinish
    \/ PitPersist

SpecPaging == InitPaging /\ [][NextPaging]_vars /\ WF_vars(NextPaging)

\* The jobs whose request function calls itself after a 429, against an
\* upstream that throttles.
InitThrottled ==
    /\ upstream = "throttled"
    /\ disk = "ok"
    /\ InitJob
    /\ kind \in {"pitstops", "driver", "team"}
    /\ season = 2025 /\ round_num = 2
    /\ events_json.wellformed /\ events_json.races = UpstreamRaces

NextThrottled ==
    \/ PitRun
    \/ MakeRequestWait
    \/ MakeRequestGet
    \/ MakeRequestBackoff
    \/ PitFirst
    \/ PitLoop
    \/ PitPage
    \/ PitFinish
    \/ PitPersist
    \/ TeamStart
    \/ TeamCheckRateLimits
    \/ TeamGet
    \/ TeamBackoff
    \/ TeamRaceInfo
    \/ TeamStandings
    \/ DriverProcessRound
    \/ DriverFetch
    \/ DriverBackoff
    \/ DriverSave

SpecThrottled == InitThrottled /\ [][NextThrottled]_vars

(***************************************************************************)
(* Properties                                                              *)
(***************************************************************************)
Min(a, b) == IF a < b THEN a ELSE b
Last(log) == log[Len(log)]

RECURSIVE PagesOf(_)
\* The records of the 200 pages of a log, page after page.
PagesOf(log) ==
    IF log = <<>> THEN <<>>
    ELSE (IF log[1].status = 200 /\ log[1].body.shape = "full"
          THEN log[1].body.recs ELSE <<>>) \o PagesOf(Tail(log))

\* Every request of the job was answered 200 and page k carried
\* min(L, T - k*L) records, T >= 1 being the total the first page declared.
WellBehavedPages ==
    /\ reqLog # <<>>
    /\ reqLog[1].body.total >= 1
    /\ \A i \in 1..Len(reqLog) :
        /\ reqLog[i].status = 200
        /\ reqLog[i].body.shape = "full"
        /\ Len(reqLog[i].body.recs) = Min(limit, reqLog[1].body.total - (i - 1) * limit)

\* C1. Pagination completeness: when fetch_pitstops_for_race has returned
\* from a run in which no request failed and page k carried min(L, T - k*L)
\* records, the run made exactly ceil(T/L) requests, at offsets 0, L, 2L, ...
\* in that order, and the document returned holds a PitStops array of
\* length T: the records of the pages in their original order.
C1_PaginationComplete ==
    (kind = "pitstops" /\ pc = "pit_persist" /\ WellBehavedPages) =>
        LET T == reqLog[1].body.total IN
        /\ Len(reqLog) = (T + limit - 1) \div limit
        /\ \A i \in 1..Len(reqLog) : reqLog[i].url = PitUrl((i - 1) * limit)
        /\ pitstops_data.shape = "full"
        /\ Len(pitstops_data.recs) = T
        /\ pitstops_data.recs = PagesOf(reqLog)
        /\ pitstops_data.recs = [i \in 1..T |-> i]

\* A collection of two pages or more, fetched whole.
C1_Witness ==
    /\ kind = "pitstops" /\ pc = "pit_persist" /\ WellBehavedPages
    /\ Len(reqLog) >= 2
    /\ Len(pitstops_data.recs) = reqLog[1].body.total

\* The program points at which a request is being prepared, sent or retried.
InRequest ==
    pc \in {"mr_wait", "mr_get", "mr_backoff", "team_check", "team_get",
            "team_backoff", "driver_fetch", "driver_backoff", "events_fetch",
            "events_backoff", "lap_get", "lap_backoff"}

\* The program points right after a request function returned a value.
AfterReturn ==
    pc \in {"pit_first", "pit_page", "team_race_info", "team_standings",
            "driver_save", "events_save", "sprint_fallback", "sprint_save",
            "quali_race_info", "quali_save", "lap_merge"}

\* The fixed sleep of the job's fetch function after a 429.
BackoffOf(k) == IF k \in {"events", "laptimes"} THEN 60 * Second ELSE 30 * Second

\* C4. A 429 is never surfaced: in every fetch function, while the last
\* response is a 429 the call is still in progress on the same URL, the
\* request after a 429 is for the same URL and starts the fixed sleep later,
\* and the value returned is that of the first response that is not 429.
C4_RateLimitedNeverSurfaced ==
    /\ (reqLog # <<>> /\ Last(reqLog).status = 429) =>
            (InRequest /\ url = Last(reqLog).url /\ outcome = "running")
    /\ \A i \in 1..(Len(reqLog) - 1) :
            reqLog[i].status = 429 =>
                /\ reqLog[i + 1].url = reqLog[i].url
                /\ reqLog[i + 1].start >= reqLog[i].end + BackoffOf(kind)
    /\ (AfterReturn /\ Last(reqLog).status = 200) => ret = Last(reqLog).body

\* A call answered 429, then 200, has returned the body of the 200.
C4_Witness ==
    /\ AfterReturn
    /\ Len(reqLog) = 2
    /\ reqLog[1].status = 429
    /\ reqLog[2].status = 200
    /\ ret = reqLog[2].body

\* The burst limit each fetcher declares.
BurstLimitOf(k) ==
    CASE k \in {"pitstops", "sprint", "quali"} -> burst_limit
      [] k = "laptimes" -> laptimes_RATE_LIMIT_BURST
      [] k = "team" -> BURST_LIMIT
      [] k = "driver" -> driver_RATE_LIMIT_BURST

\* C5. Burst spacing: two consecutive requests of a fetcher with burst limit
\* B, retries after 429 included, are at least 1/B seconds apart, from the
\* completion of the earlier to the start of the later.
C5_BurstSpacing ==
    kind # "events" =>
        \A i \in 1..(Len(reqLog) - 1) :
            reqLog[i + 1].start - reqLog[i].end >= Second \div BurstLimitOf(kind)

\* The limiter slept exactly the remaining time after a slow request.
C5_Witness ==
    /\ kind = "pitstops"
    /\ Len(reqLog) >= 2
    /\ reqLog[1].end > reqLog[1].start
    /\ reqLog[2].start - reqLog[1].end = Second \div burst_limit

\* C2. Partial-merge persistence: in a pit-stop job whose first page
\* succeeded and whose request for a later page k >= 1 was answered with a
\* status that is neither 200 nor 429, fetch_pitstops_for_race returns a
\* document holding exactly the records of pages 0..k-1 and run() writes
\* that document to pitstops.json.
C2_PartialMergePersisted ==
    (/\ kind = "pitstops" /\ pc = "done"
     /\ Len(reqLog) >= 2
     /\ Last(reqLog).status = 500
     /\ Last(reqLog).url.offset > 0) =>
        /\ outcome = "persisted"
        /\ PitPath \in DOMAIN files
        /\ files[PitPath] = pitstops_data
        /\ pitstops_data.recs = PagesOf(reqLog)

\* No request of the job failed: every one was answered 200.
NoRequestFailed == \A i \in 1..Len(reqLog) : reqLog[i].status = 200

\* C3. Whatever number of records (0 to the page size) each page carries
\* and whichever requests fail, the number of records accumulated by the
\* pit-stop collector never exceeds the total the first page declared, and
\* when no request fails it equals that total at return.
C3_CountWithinTotal ==
    (kind = "pitstops" /\ total_pitstops # NoTotal) =>
        /\ Len(all_pitstops) <= total_pitstops
        /\ (pc = "pit_persist" /\ NoRequestFailed) =>
                Len(all_pitstops) = total_pitstops

\* C6. Sustained policy: a check_rate_limits call that finds the hourly
\* counter at SUSTAINED_LIMIT returns only when 3600 seconds have passed
\* since hour_start_time, with the counter at zero and the window restarted.
C6_SustainedBlocksAnHour ==
    [][(pc = "team_check" /\ requests_this_hour >= SUSTAINED_LIMIT) =>
          /\ clock' - hour_start_time >= 3600 * Second
          /\ requests_this_hour' = 0
          /\ hour_start_time' >= hour_start_time + 3600 * Second]_vars

\* C7. In every fetch function a response whose status is neither 200 nor
\* 429 ends the call without a retry and makes it return None, not the body.
C7_OtherStatusGivesNone ==
    /\ \A i \in 1..(Len(reqLog) - 1) :
            reqLog[i].status = 500 => reqLog[i + 1].url # reqLog[i].url
    /\ (reqLog # <<>> /\ Last(reqLog).status = 500) =>
            /\ ~InRequest
            /\ AfterReturn => ret = None
            /\ (kind = "laptimes" /\ pc = "lap_save") => lap_data = None

\* C8. In every fetcher a connection-level failure of requests.get makes the
\* request function return None: the exception does not reach the job.
C8_ConnectionFailureGivesNone ==
    (reqLog # <<>> /\ Last(reqLog).raised) =>
        /\ outcome # "raised"
        /\ AfterReturn => ret = None

\* C9. In the lap-times job, when the request for a page after the first is
\* answered with an error status other than 429, fetch_laptimes returns the
\* laps accumulated so far and main() writes them to laptimes.json.
C9_LapPartialPersisted ==
    (/\ kind = "laptimes" /\ pc = "done"
     /\ Len(reqLog) >= 2
     /\ Last(reqLog).status = 500
     /\ Last(reqLog).url.offset > 0) =>
        /\ outcome = "persisted"
        /\ LapPath \in DOMAIN files
        /\ files[LapPath] = all_data

\* The first page of the collection arrived and declares total 0.
EmptyCollection ==
    /\ kind \in {"pitstops", "laptimes"}
    /\ reqLog # <<>>
    /\ Last(reqLog).status = 200
    /\ Last(reqLog).url.offset = 0
    /\ Last(reqLog).body.total = 0

\* C10. Empty collection: when the first page declares total 0 the collector
\* returns after that one page request with the first response itself, not
\* None, and the job persists it as a normal success.
C10_EmptyCollectionPersisted ==
    /\ (EmptyCollection /\ pc \in {"pit_persist", "lap_save", "done"}) =>
            /\ Len(reqLog) - Count429(reqLog) = 1
            /\ kind = "pitstops" => pitstops_data = Last(reqLog).body
            /\ kind = "laptimes" => lap_data = Last(reqLog).body
    /\ (EmptyCollection /\ pc = "done") =>
            /\ outcome = "persisted"
            /\ kind = "pitstops" => files[PitPath] = Last(reqLog).body
            /\ kind = "laptimes" => files[LapPath] = Last(reqLog).body

\* The files of the store that the jobs of the behaviour wrote or changed.
Written ==
    { p \in DOMAIN files : p \notin DOMAIN OldFiles \/ files[p] # OldFiles[p] }

\* C11. When <season>/events.json is absent the pit-stop job and the
\* driver-standings job end as skipped, having sent no HTTP request and
\* written no file.
C11_MissingIndexSkips ==
    (kind \in {"pitstops", "driver"} /\ ~events_json.exists) =>
        /\ reqLog = <<>>
        /\ files = OldFiles
        /\ pc \in {"start", "done"}
        /\ pc = "done" => outcome = "skipped"

\* A pit-stop job of a season with pit-stop data ended without its index.
C11_Witness ==
    /\ kind = "pitstops" /\ season >= 2011 /\ ~events_json.exists
    /\ pc = "done" /\ outcome = "skipped"

\* The round is one of those the upstream lists for the season.
RoundListed(n) == \E i \in 1..Len(UpstreamRaces) : UpstreamRaces[i].round = Str(n)

\* C12. When the round is not in the event list a job consults (events.json
\* for pit stops and driver standings; events.json or, in its absence, the
\* race list of the upstream for sprint), the job ends as skipped: it asks
\* for no list a second time, sends no resource request and writes no file.
C12_UnknownRoundSkips ==
    (kind \in ReadsIndex /\ ~RoundListed(round_num)) =>
        /\ \A i \in 1..Len(reqLog) : reqLog[i].url.res = "races"
        /\ Len(reqLog) - Count429(reqLog) <= 1
        /\ files = OldFiles
        /\ (pc = "done" /\ ~(reqLog # <<>> /\ Last(reqLog).raised)) =>
                outcome = "skipped"

\* A sprint job without events.json got the race list, which lacks the round.
C12_Witness ==
    /\ kind = "sprint" /\ ~RoundListed(round_num) /\ ~events_json.exists
    /\ reqLog # <<>> /\ Last(reqLog).status = 200 /\ Last(reqLog).body.shape = "races"
    /\ pc = "done" /\ outcome = "skipped"

\* C13. When the located event has no Sprint key the sprint job skips: no
\* sprint-results request is sent, no sprint_results.json is written and the
\* status reported is not success.
C13_NoSprintSkips ==
    (kind = "sprint" /\ race_info # NoRace /\ ~race_info.Sprint) =>
        /\ \A i \in 1..Len(reqLog) : reqLog[i].url.res # "sprint"
        /\ files = OldFiles
        /\ pc = "done" /\ outcome = "skipped"

\* The sprint job located round 1, which has no sprint, in events.json.
C13_Witness ==
    /\ kind = "sprint" /\ events_json.exists /\ race_info = RaceA
    /\ pc = "done" /\ outcome = "skipped"

\* C14. The event index is a hard dependency of the per-round jobs: none of
\* the driver-standings, constructor-standings, lap-times, pit-stop and
\* qualifying jobs writes a resource document for a season whose
\* events.json does not exist.
C14_IndexIsHardDependency ==
    (kind \in {"driver", "team", "laptimes", "pitstops", "quali"}
        /\ ~events_json.exists) => Written = {}

\* The folder slug of the claimed rule: lowercase, spaces to hyphens,
\* apostrophes stripped.
SlugRule(name) == Replace(Replace(LowerAll(name), " ", <<"-">>), "'", <<>>)

\* C15. Every job derives the folder of an event by the one rule lowercase,
\* spaces to hyphens, apostrophes stripped: every file a job writes lies in
\* the folder that rule gives for the display name of an event.
C15_OneSlugRule ==
    \A p \in Written :
        \E i \in 1..Len(UpstreamRaces) : p[2] = SlugRule(UpstreamRaces[i].raceName)

\* C16. Idempotent store: when the same job has run a second time against
\* the same upstream responses and the same event index, every file holds
\* what it held after the first run (a document saved twice to one path
\* reads the same both times), and so does events.json.
C16_IdempotentStore ==
    (run = 2 /\ pc = "done") =>
        /\ files = first_run.files
        /\ events_json = first_run.events_json

\* A pit-stop job wrote a document with records, twice.
C16_Witness ==
    /\ run = 2 /\ pc = "done" /\ outcome = "persisted"
    /\ kind = "pitstops"
    /\ PitPath \in Written
    /\ Len(files[PitPath].recs) >= 1

\* The file name of the resource each per-round job fetches.
ResourceName(k) ==
    CASE k = "driver" -> "driverPoints.json"
      [] k = "team" -> "teamPoints.json"
      [] k = "laptimes" -> "laptimes.json"
      [] k = "pitstops" -> "pitstops.json"
      [] k = "quali" -> "quali_results.json"
      [] k = "sprint" -> "sprint_results.json"

\* The event of a round, and the folder the job of kind k derives for it.
EventOf(n) == IF n = 2 THEN RaceB ELSE RaceA

FolderOf(k, race) ==
    CASE k = "pitstops" -> get_race_folder_name(race)
      [] k \in {"driver", "sprint"} -> driver_get_race_folder_name(race)
      [] k = "team" -> team_race_name(race.raceName)
      [] k = "laptimes" -> laptimes_race_name(race.raceName)
      [] k = "quali" -> slugify(race.raceName)

\* C17. A per-round job writes at most one file, the one named
\* <season>/<folder of the event>/<its resource name>.json, and leaves every
\* other file as it was: the documents of other jobs and event_info.json
\* stay in the store with their contents, and events.json is not touched.
C17_OneOwnFile ==
    kind # "events" =>
        /\ Cardinality(Written) <= 1
        /\ \A p \in Written :
              p = <<season, FolderOf(kind, EventOf(round_num)), ResourceName(kind)>>
        /\ \A p \in DOMAIN OldFiles :
              /\ p \in DOMAIN files
              /\ p[3] # ResourceName(kind) => files[p] = OldFiles[p]
        /\ events_json = first_run.events_json

\* The driver-standings job replaced the standings an earlier run left in a
\* folder that holds event_info.json too.
C17_Witness ==
    /\ kind = "driver" /\ pc = "done" /\ outcome = "persisted"
    /\ Written = {DriverPath}
    /\ DriverPath \in DOMAIN OldFiles
    /\ \E p \in DOMAIN OldFiles : p[2] = DriverPath[2] /\ p # DriverPath

\* The requests for the resource of a job, as opposed to those that look the
\* event up (race, races).
ResourceRequests ==
    {"pitstops", "laps", "constructorstandings", "driverstandings", "sprint",
     "qualifying"}

\* The event was located before request i of the run: in events.json, or by
\* an earlier request answered with the race or the race list.
LocatedBefore(i) ==
    \/ race_info # NoRace
    \/ \E j \in 1..(i - 1) :
          /\ reqLog[j].url.res \in {"race", "races"}
          /\ reqLog[j].status = 200
          /\ reqLog[j].body.shape \in {"nokey", "races"}

\* The steps of a job run come in the order LocateEvent, FetchResource,
\* Persist, and the run ends at the first early exit.
InJobOrder ==
    /\ \A i \in 1..Len(reqLog) :
          reqLog[i].url.res \in ResourceRequests => LocatedBefore(i)
    /\ (pc = "done" /\ outcome = "persisted") =>
          /\ reqLog # <<>>
          /\ Last(reqLog).url.res \in ResourceRequests
          /\ Last(reqLog).status = 200
    /\ (pc = "done" /\ outcome = "skipped") =>
          \A i \in 1..Len(reqLog) : reqLog[i].url.res \notin ResourceRequests
    /\ (run = 1 /\ Written # {}) => (pc = "done" /\ outcome = "persisted")

\* C18. Every job run goes through LocateEvent, FetchResource, Persist in
\* that order and ends at the first of success, not-found or fetch failure:
\* the resource request is sent only after the event was located, the file
\* is written only after the fetch returned data, and after an early exit no
\* later step is performed.
C18_LocateFetchPersist == kind # "events" => InJobOrder

\* C19. No outcome raises an unhandled error: whatever the upstream answers
\* and whatever the state of the event index, a job that ended returned
\* normally with a status, so that the next job of a batch still runs.
C19_NoUnhandledError ==
    /\ outcome # "raised"
    /\ pc = "done" => outcome \in {"persisted", "skipped", "failed"}

\* The number of requests of a log that were not answered 429: each stands
\* for one page, the 429 ones being repeated.
RECURSIVE PagesAsked(_)
PagesAsked(log) ==
    IF log = <<>> THEN 0
    ELSE (IF Last(log).status = 429 THEN 0 ELSE 1)
            + PagesAsked(SubSeq(log, 1, Len(log) - 1))

\* The records accumulated by the collector of the job.
Accumulated ==
    IF kind = "pitstops" THEN all_pitstops
    ELSE IF all_data.shape = "full" THEN all_data.recs ELSE <<>>

\* C20. Within one collector run (pit stops, lap times) pages are requested
\* and merged strictly in increasing offset order: request i is for offset
\* k * page size, k being the number of pages asked before it (a request
\* answered 429 is repeated at the same offset), so no offset is skipped;
\* while a request is prepared or in flight every page answered before is
\* merged, and the records accumulated are those of the pages in the order
\* of the requests.
C20_PagesInOffsetOrder ==
    kind \in {"pitstops", "laptimes"} =>
        /\ \A i \in 1..Len(reqLog) :
              reqLog[i].url.offset = PagesAsked(SubSeq(reqLog, 1, i - 1)) * PageSize
        /\ pc \in {"mr_wait", "mr_get", "mr_backoff", "lap_get", "lap_backoff"} =>
              /\ url.offset = PagesAsked(reqLog) * PageSize
              /\ Accumulated = PagesOf(reqLog)
        /\ \E m \in 0..Len(reqLog) :
              \/ Accumulated = PagesOf(SubSeq(reqLog, 1, m))
              \/ total_pitstops = 0 /\ Accumulated = <<>>

\* Three records in two pages, the second page asked twice because of a 429.
C20_Witness ==
    /\ kind = "pitstops" /\ pc = "pit_persist"
    /\ Len(reqLog) = 3
    /\ reqLog[2].status = 429
    /\ reqLog[3].url.offset = PageSize
    /\ Len(all_pitstops) = 3

\* C21. When writing the resource file fails with an I/O error the job does
\* not report success: the sprint job returns False (failed), and the
\* qualifying, pit-stop and standings jobs do not log or signal a successful
\* save.
C21_WriteFailureNotSuccess ==
    (disk = "failing" /\ pc = "done") =>
        /\ kind = "sprint" => outcome \in {"failed", "skipped", "raised"}
        /\ kind \in {"quali", "pitstops", "team", "driver"} => outcome # "persisted"

\* A collection of two pages or more in which every request was answered
\* 200 with a page that holds records, as many in all as page 0 declared.
MultiPageSuccess ==
    /\ Len(reqLog) >= 2
    /\ \A i \in 1..Len(reqLog) :
          /\ reqLog[i].status = 200
          /\ reqLog[i].body.shape = "full"
          /\ reqLog[i].body.recs # <<>>
    /\ Len(PagesOf(reqLog)) = reqLog[1].body.total

\* The document the collector returned, once it has returned.
Returned == IF kind = "pitstops" THEN pitstops_data ELSE lap_data

\* C22. On a successful multi-page collection the document the collector
\* returns is the envelope of page 0 with its repeated array replaced by the
\* merged array: every other field of the envelope is that of page 0.
C22_FirstEnvelopeKept ==
    (/\ kind \in {"pitstops", "laptimes"}
     /\ pc \in {"pit_persist", "lap_save"}
     /\ MultiPageSuccess) =>
        Returned = [reqLog[1].body EXCEPT !.recs = PagesOf(reqLog)]

\* A scan of a race list from its head for the round string r.
RECURSIVE FirstMatch(_, _)
FirstMatch(races, r) ==
    IF races = <<>> THEN NoRace
    ELSE IF Head(races).round = r THEN Head(races)
    ELSE FirstMatch(Tail(races), r)

\* The job has looked the round up in a well-formed events.json.
LookedUp ==
    /\ kind \in ReadsIndex
    /\ events_json.exists /\ events_json.wellformed
    /\ pc # "start"
    /\ kind = "pitstops" => season >= 2011

\* C23. Event lookup returns the first race, in index order, whose textual
\* round equals str(round_num), and not-found exactly when no race of the
\* index has that round string: "03" is not the round 3.
C23_FirstTextualMatch ==
    LookedUp =>
        /\ race_info = FirstMatch(events_json.races, Str(round_num))
        /\ race_info = NoRace <=>
              \A i \in 1..Len(events_json.races) :
                  events_json.races[i].round # Str(round_num)

\* The driver-standings job found round 2 in an index that lists it twice.
C23_Witness ==
    /\ LookedUp /\ kind = "driver" /\ round_num = 2
    /\ Len(events_json.races) = 4
    /\ race_info = RaceB

\* The program points where a sleep after a 429 is still to be taken.
InBackoff ==
    pc \in {"mr_backoff", "team_backoff", "driver_backoff", "events_backoff",
            "lap_backoff"}

\* C25. After a 429 the next request is the retry: it is for the same URL
\* and starts no earlier than the fixed sleep (30 seconds, 60 in the events
\* and lap-time jobs) after the 429 came in, and until it is sent the job
\* holds that URL and sends nothing else.
C25_RetryAfterBackoff ==
    /\ \A i \in 1..(Len(reqLog) - 1) :
            reqLog[i].status = 429 =>
                /\ reqLog[i + 1].url = reqLog[i].url
                /\ reqLog[i + 1].start - reqLog[i].end >= BackoffOf(kind)
    /\ (reqLog # <<>> /\ Last(reqLog).status = 429) =>
            /\ url = Last(reqLog).url
            /\ InBackoff \/ clock - Last(reqLog).end >= BackoffOf(kind)

\* The pit-stop job retried a page after a 429, thirty seconds or more later.
C25_Witness ==
    /\ kind = "pitstops"
    /\ Len(reqLog) >= 2
    /\ reqLog[1].status = 429
    /\ reqLog[2].url = reqLog[1].url
    /\ reqLog[2].start >= reqLog[1].end + 30 * Second

\* C30. A pit-stop job for a season before 2011 reads no index, sends no
\* request and writes no file: it ends as skipped with nothing looked up.
C30_NoPitstopsBefore2011 ==
    (kind = "pitstops" /\ season < 2011) =>
        /\ reqLog = <<>>
        /\ files = OldFiles /\ dirs = { f[2] : f \in DOMAIN OldFiles }
        /\ race_info = NoRace
        /\ pc \in {"start", "done"}
        /\ pc = "done" => outcome = "skipped"

\* A pit-stop job of 2010 ended, its round listed in a readable events.json.
C30_Witness ==
    /\ kind = "pitstops" /\ season = 2010 /\ pc = "done"
    /\ events_json.wellformed
    /\ get_race_info(events_json, round_num) # NoRace
    /\ outcome = "skipped"

\* C27. Hourly ceiling of ConstructorStandingsFetcher: the counter never
\* exceeds SUSTAINED_LIMIT, no request goes out while the counter is at the
\* ceiling, and no more than SUSTAINED_LIMIT requests are sent in one hour:
\* here the hour that starts when the fetcher is constructed.
C27_HourlyCeiling ==
    kind = "team" =>
        /\ requests_this_hour <= SUSTAINED_LIMIT
        /\ pc = "team_get" => requests_this_hour < SUSTAINED_LIMIT
        /\ clock - StartTime <= 3600 * Second => requests_sent <= SUSTAINED_LIMIT

\* C28. In ConstructorStandingsFetcher every request is counted once:
\* until the window is reset, requests_this_hour is the number of requests
\* attempted, those that ended in a connection error included, and each of
\* them went out after a check_rate_limits call of its own.
C28_EveryRequestCounted ==
    (kind = "team" /\ hour_start_time = StartTime) =>
        /\ requests_this_hour = requests_sent
        /\ \A i \in 1..Len(reqLog) : reqLog[i].start >= StartTime + i * REQUEST_DELAY

\* The requests of the call that sent the last request: the last request
\* and those before it for the same URL.
LastCall ==
    { i \in 1..Len(reqLog) : \A j \in i..Len(reqLog) : reqLog[j].url = Last(reqLog).url }

\* C26. The retry after a 429 has no ceiling on attempts: a call answered by
\* n 429s and then by something else has sent n + 1 requests, it returns at
\* the first response that is not a 429, and it has not returned while the
\* last response is a 429.
C26_RetryWithoutCeiling ==
    /\ (reqLog # <<>> /\ Last(reqLog).status = 429) =>
            (InRequest /\ outcome = "running")
    /\ \A i \in 1..(Len(reqLog) - 1) :
            reqLog[i].status # 429 => reqLog[i + 1].url # reqLog[i].url
    /\ (AfterReturn /\ reqLog # <<>>) =>
            /\ Last(reqLog).status # 429
            /\ \A i \in LastCall \ {Len(reqLog)} : reqLog[i].status = 429
            /\ Cardinality(LastCall) =
                   Cardinality({ i \in LastCall : reqLog[i].status = 429 }) + 1

\* A call of the pit-stop job returned the body that came after three 429s.
C26_Witness ==
    /\ kind = "pitstops" /\ pc = "pit_first"
    /\ Len(reqLog) >= 4
    /\ \A i \in 1..(Len(reqLog) - 1) : reqLog[i].status = 429
    /\ Last(reqLog).status = 200
    /\ ret = Last(reqLog).body

\* C24. A collector run with 429s at any positions returns what the run
\* over the same pages without the 429s returns: the run without them asks
\* for the same pages, one request a page, and ends with the same document,
\* the same store and the same status.
C24_SameWithout429 ==
    run = 3 =>
        /\ pc \in {"mr_get", "lap_get"} => Replayed(url) # {}
        /\ pc = "done" =>
              /\ Len(reqLog) = Len(Without429(first_run.log))
              /\ pitstops_data = first_run.pitstops_data
              /\ lap_data = first_run.lap_data
              /\ files = first_run.files
              /\ outcome = first_run.outcome

\* A pit-stop collection of two pages that was answered 429 before its first
\* page and between its pages, and the run without the 429s, both persisted.
C24_Witness ==
    /\ run = 3 /\ pc = "done" /\ kind = "pitstops"
    /\ outcome = "persisted"
    /\ Len(reqLog) = 2
    /\ Len(first_run.log) >= 4
    /\ first_run.log[1].status = 429
    /\ first_run.log[2].status = 200
    /\ first_run.log[3].status = 429
    /\ Len(pitstops_data.recs) > PageSize

\* The race-list requests of a log that were answered by something else
\* than a 429.
RaceListCalls(log) ==
    { i \in 1..Len(log) : log[i].url.res = "races" /\ log[i].status # 429 }

\* C29. Without events.json the sprint job asks the API once for the race
\* list and ends as the job does with an events.json that holds that
\* response: the same status, the same files with the same content. The
\* fallback run leaves events.json absent.
C29_FallbackAsIndex ==
    /\ run = 1 => (~events_json.exists /\ Cardinality(RaceListCalls(reqLog)) <= 1)
    /\ run = 4 =>
          /\ ~first_run.events_json.exists
          /\ Cardinality(RaceListCalls(first_run.log)) = 1
          /\ RaceListCalls(reqLog) = {}
          /\ pc = "mr_get" => Replayed(url) # {}
          /\ pc = "done" =>
                /\ outcome = first_run.outcome
                /\ files = first_run.files

\* Both runs wrote the sprint results of round 2, the first after a fallback
\* request, the second from the index.
C29_Witness ==
    /\ run = 4 /\ pc = "done" /\ round_num = 2
    /\ outcome = "persisted"
    /\ first_run.log[1].url.res = "races"
    /\ Len(reqLog) = 1
    /\ files # OldFiles

\* The event_info.json files of the two races the upstream lists, each under
\* the lowercase, hyphenated name of its race.
UpstreamEventInfo ==
    (<<2025, <<"a", "-", "g", "p">>, "event_info.json">> :> RaceA)
    @@ (<<2025, <<"b", "'", "a", "-", "g", "p">>, "event_info.json">> :> RaceB)

C32_BurstSpacingAcrossJobs ==
    (/\ kind = "pitstops" /\ run = 2
     /\ first_run.outcome # "raised"
     /\ reqLog # <<>> /\ first_run.log # <<>>) =>
        reqLog[1].start - Last(first_run.log).end >= Second \div burst_limit

\* A page of the collection was answered 200 with no record.
EmptyPage ==
    \E i \in 1..Len(reqLog) : reqLog[i].status = 200 /\ reqLog[i].body.recs = <<>>

\* The collector returns in every behaviour in which each page brings a
\* record: the requests the model follows a job for are enough for those.
TerminatesUnlessEmptyPage == <>(pc \in {"pit_persist", "done"} \/ EmptyPage)

\* The collector stands before a request the model does not follow only
\* after pages without records, with the loop test of line 148 still true.
BeyondCapOnlyAfterEmptyPage ==
    (pc = "mr_get" /\ Len(reqLog) = RequestCap) =>
        (EmptyPage /\ MorePitstops(all_pitstops, total_pitstops))

ResourceFetchFailed ==
    \E i \in 1..Len(reqLog) :
        /\ reqLog[i].url.res \in ResourceRequests
        /\ reqLog[i].status \notin {200, 429}
        /\ \A j \in 1..(i - 1) :
              reqLog[j].url.res \in ResourceRequests => reqLog[j].status = 429

\* C34. When the fetch of the resource brought no data because its first or
\* only request failed, the job writes nothing: every file of the store,
\* the one at the target path included, holds what it held, and there is no
\* new file. The job does not end as persisted.
C34_NoDataNoWrite ==
    (kind # "events" /\ ResourceFetchFailed) =>
        /\ files = OldFiles
        /\ pc = "done" => outcome \in {"failed", "raised"}

\* The driver-standings job of round 2 ended after a 500, the older
\* driverPoints.json of the event still in place.
C34_Witness ==
    /\ kind = "driver" /\ round_num = 2 /\ pc = "done"
    /\ Len(reqLog) = 1 /\ reqLog[1].status = 500
    /\ DriverPath \in DOMAIN OldFiles
    /\ files[DriverPath] = OldDocument

\* C35. fetch_sprint_for_round returns True exactly when the call wrote
\* sprint_results.json for the event it located: then the store is the old
\* one with that file holding the response; on every other path (race not
\* found, no sprint, no data, write error) it returns False and no
\* sprint_results.json was created or changed.
C35_TrueIffWritten ==
    (kind = "sprint" /\ pc = "done" /\ outcome # "raised") =>
        /\ outcome = "persisted" =>
              /\ race_info # NoRace
              /\ files = (SprintPath :> Last(reqLog).body) @@ OldFiles
        /\ outcome # "persisted" => files = OldFiles

====
